---- MODULE Spec2Model ----
(***************************************************************************)
(* Model of the gitignore-helper extension: the "Clean & Sort" command     *)
(* (extension.cleanupGitignore), the activation gate and the visual        *)
(* editor's autocomplete.  Text is a sequence of UTF-16 code units.        *)
(***************************************************************************)
EXTENDS Integers, Sequences, FiniteSets, TLC

\* ---------------------------------------------------------------- bounds
MaxLen == 5
MaxRuns == 2
MaxEditLen == 2
MaxTyped == 2
MaxOps == 2
MaxFileLen == 3

\* ------------------------------------------------------------ characters
LF == 10
CR == 13
SP == 32
BANG == 33
HASH == 35
SLASH == 47
LOWER_A == 97

\* Code units a document is built from: the two line-ending characters, a
\* blank, the comment marker and two pattern characters.
Alphabet == {LF, CR, SP, BANG, HASH, LOWER_A}

\* doc.getText(): the text of an editor document.  The editor's line model
\* ends lines with "\n" or "\r\n", so a carriage return is always followed
\* by a line feed.
IsDocumentText(t) ==
    \A k \in 1..Len(t) : t[k] = CR => (k < Len(t) /\ t[k + 1] = LF)

TextsUpTo(len) ==
    { t \in UNION { [1..n -> Alphabet] : n \in 0..len } : IsDocumentText(t) }

Texts == TextsUpTo(MaxLen)

\* ------------------------------------------------------ string primitives
\* Whitespace removed by String.prototype.trim (restricted to Alphabet).
IsWhiteSpace(c) == c \in {LF, CR, SP}

RECURSIVE trimStart(_)
trimStart(s) ==
    IF s # <<>> /\ IsWhiteSpace(Head(s)) THEN trimStart(Tail(s)) ELSE s

RECURSIVE trimEnd(_)
trimEnd(s) ==
    IF s # <<>> /\ IsWhiteSpace(s[Len(s)])
    THEN trimEnd(SubSeq(s, 1, Len(s) - 1))
    ELSE s

\* String.prototype.trim
trim(s) == trimEnd(trimStart(s))

\* trimmed.startsWith('#')
startsWithHash(s) == s # <<>> /\ s[1] = HASH

\* Mutant of splitFrom: the text is split at "\n" only.
RECURSIVE splitAtLineFeed(_, _, _)
splitAtLineFeed(s, k, cur) ==
    IF k > Len(s) THEN << cur >>
    ELSE IF s[k] = LF THEN << cur >> \o splitAtLineFeed(s, k + 1, <<>>)
    ELSE splitAtLineFeed(s, k + 1, Append(cur, s[k]))

\* content.split(/\r?\n/): scan from position k with the current piece cur.
RECURSIVE splitFrom(_, _, _)
splitFrom(s, k, cur) ==
    IF k > Len(s) THEN << cur >>
    ELSE IF s[k] = LF THEN << cur >> \o splitFrom(s, k + 1, <<>>)
    ELSE IF s[k] = CR /\ k < Len(s) /\ s[k + 1] = LF
         THEN << cur >> \o splitFrom(s, k + 2, <<>>)
    ELSE splitFrom(s, k + 1, Append(cur, s[k]))

split(s) == splitFrom(s, 1, <<>>)

\* Array.prototype.join
RECURSIVE join(_, _)
join(parts, sep) ==
    IF parts = <<>> THEN <<>>
    ELSE IF Len(parts) = 1 THEN parts[1]
    ELSE parts[1] \o sep \o join(Tail(parts), sep)

\* Mutant of strLess: a leading '!' (negation) is ignored when comparing.
RECURSIVE strLessPlain(_, _)
strLessPlain(a, b) ==
    IF b = <<>> THEN FALSE
    ELSE IF a = <<>> THEN TRUE
    ELSE IF Head(a) # Head(b) THEN Head(a) < Head(b)
    ELSE strLessPlain(Tail(a), Tail(b))

dropBang(s) == IF s # <<>> /\ Head(s) = BANG THEN Tail(s) ELSE s

strLessIgnoringNegation(a, b) == strLessPlain(dropBang(a), dropBang(b))

\* Default comparison of Array.prototype.sort: code-unit order, a proper
\* prefix sorts first.
RECURSIVE strLess(_, _)
strLess(a, b) ==
    IF b = <<>> THEN FALSE
    ELSE IF a = <<>> THEN TRUE
    ELSE IF Head(a) # Head(b) THEN Head(a) < Head(b)
    ELSE strLess(Tail(a), Tail(b))

RECURSIVE insertSorted(_, _)
insertSorted(x, sorted) ==
    IF sorted = <<>> THEN << x >>
    ELSE IF strLess(x, Head(sorted)) THEN << x >> \o sorted
    ELSE << Head(sorted) >> \o insertSorted(x, Tail(sorted))

\* Array.prototype.sort() with the default comparison
RECURSIVE sort(_)
sort(arr) ==
    IF arr = <<>> THEN <<>>
    ELSE insertSorted(arr[Len(arr)], sort(SubSeq(arr, 1, Len(arr) - 1)))

Range(seq) == { seq[k] : k \in 1..Len(seq) }

\* Mutant of fromSet: the array is not passed through a Set.
fromSetKeepingDuplicates(arr) == arr

\* Array.from(new Set(arr)): first occurrences, in insertion order.
RECURSIVE fromSet(_)
fromSet(arr) ==
    IF arr = <<>> THEN <<>>
    ELSE LET init == SubSeq(arr, 1, Len(arr) - 1)
             last == arr[Len(arr)]
         IN  IF last \in Range(init) THEN fromSet(init)
             ELSE Append(fromSet(init), last)

\* ----------------------------------------------------------------- state
VARIABLES
    exists,          \* fs.existsSync(gitignorePath)
    disk,            \* text of the .gitignore file on disk
    doc,             \* text of the .gitignore document (editor buffer)
    pc,              \* "idle" | "picking" | "flat" | "smart": position in the command
    picked,          \* label of the quick pick item that was chosen
    notice,          \* last information message shown
    content,         \* doc.getText() taken by the running command
    lines,           \* content.split(/\r?\n/)
    idx,             \* index of the next line the for-loop reads
    cleanedLines,    \* Flat: lines kept so far (uniqueLines is their set)
    sections,        \* Smart: finished sections
    currentSection,  \* Smart: section being collected
    history,         \* completed runs: mode, content read, sections, text written
    \* ---- activation gate
    extensionMode,   \* context.extensionMode
    isActivated,     \* globalState 'isActivated' === true
    localIntegrity,  \* integrity.json: "missing", "malformed" or its hash
    extensionJs,     \* out/extension.js: "missing" or its sha256
    remote,          \* what the activation endpoint will answer
    updateThrows,    \* globalState.update rejects
    registerThrows,  \* registerCommands throws
    apc,             \* position in activate / verifyAndActivate
    silent,          \* the silent argument of verifyAndActivate
    fetched,         \* fetchRemoteIntegrity resolved
    compared,        \* the hash comparison was evaluated
    registerCalls,   \* number of calls of registerCommands
    activationMessage, \* last message shown by the gate
    \* ---- visual editor
    enableAutocomplete, \* the enableAutocomplete setting
    completions,     \* last result of the language completion provider
    value,           \* editor.value: the text of the webview's textarea
    selectionEnd,    \* editor.selectionEnd: number of characters before the cursor
    currentRequestId,
    selectedIndex,
    currentItems,
    display,         \* suggestionBox.style.display
    toHost,          \* messages posted by the webview, not yet received
    awaiting,        \* 'autocomplete' messages whose handler awaits the items
    toWebview,       \* messages posted by the host, not yet received
    typed,           \* number of input events so far
    lastRequest,     \* requestId of the most recent 'autocomplete' message sent
    lastResponse,    \* requestId of the last 'autocomplete-response' received
    lastChange,      \* text of the most recent 'change' message sent
    escaped,         \* Escape was pressed and nothing was typed since
    \* ---- add to / remove from .gitignore
    epc,             \* "idle" | "createPrompt" | "pickPattern" | "inputPattern"
    relativePath,    \* path of the selected file relative to the workspace
    entryLog         \* completed add and remove commands: content read and left

activationVars == << extensionMode, isActivated, localIntegrity, extensionJs,
                     remote, updateThrows, registerThrows, apc, silent, fetched,
                     compared, registerCalls, activationMessage >>

editorVars == << enableAutocomplete, completions, value, selectionEnd,
                 currentRequestId, selectedIndex, currentItems, display,
                 toHost, awaiting, toWebview, typed, lastRequest, lastResponse,
                 lastChange,
                 escaped >>

entryVars == << epc, relativePath, entryLog >>

cleanupVars == << exists, disk, doc, pc, picked, notice, content, lines, idx,
                  cleanedLines, sections, currentSection, history >>

vars == << cleanupVars, activationVars, editorVars, entryVars >>

NoGitignoreNotice == "No .gitignore found to clean."
CleanedNotice == ".gitignore cleaned and sorted."

\* Labels of the two quick pick items.
SmartLabel == "Smart Sort (Keep Sections & Comments)"
FlatLabel == "Flat Sort (Remove Comments)"
QuickPickItems == { SmartLabel, FlatLabel }

EmptySection == [comments |-> <<>>, rules |-> <<>>]

Hashes == { "h1", "h2" }

\* The gate has run in development mode and registered the commands.
ActivationDone ==
    /\ extensionMode = "Development"
    /\ isActivated = TRUE
    /\ localIntegrity = "h1"
    /\ extensionJs = "h1"
    /\ remote = [ok |-> TRUE, hash |-> "h1"]
    /\ updateThrows = FALSE
    /\ registerThrows = FALSE
    /\ apc = "done"
    /\ silent = TRUE
    /\ fetched = TRUE
    /\ compared = TRUE
    /\ registerCalls = 1
    /\ activationMessage = ""

\* No add or remove command is running.
EntriesIdle ==
    /\ epc = "idle"
    /\ relativePath = <<>>
    /\ entryLog = <<>>

\* No visual editor is open.
EditorClosed ==
    /\ enableAutocomplete = TRUE
    /\ completions = {}
    /\ value = <<>>
    /\ selectionEnd = 0
    /\ currentRequestId = 0
    /\ selectedIndex = -1
    /\ currentItems = <<>>
    /\ display = "none"
    /\ toHost = <<>>
    /\ awaiting = {}
    /\ toWebview = <<>>
    /\ typed = 0
    /\ lastRequest = 0
    /\ lastResponse = 0
    /\ lastChange = <<>>
    /\ escaped = FALSE

hasContent(s) == Len(s.comments) > 0 \/ Len(s.rules) > 0

Init ==
    /\ exists \in BOOLEAN
    /\ doc \in (IF exists THEN Texts ELSE { <<>> })
    /\ disk = doc
    /\ pc = "idle"
    /\ picked = ""
    /\ notice = ""
    /\ content = <<>>
    /\ lines = <<>>
    /\ idx = 1
    /\ cleanedLines = <<>>
    /\ sections = <<>>
    /\ currentSection = EmptySection
    /\ history = <<>>
    /\ ActivationDone
    /\ EntriesIdle
    /\ EditorClosed

\* ------------------------------------------------------- mode selection
\* The command with no .gitignore in the workspace folder: a message, and
\* nothing else.
CleanupNoFile ==
    /\ pc = "idle"
    /\ ~exists
    /\ notice' = NoGitignoreNotice
    /\ UNCHANGED << exists, disk, doc, pc, picked, content, lines, idx,
                    cleanedLines, sections, currentSection, history >>
    /\ UNCHANGED << activationVars, editorVars, entryVars >>

\* The command shows the quick pick and waits for the choice.
ShowQuickPick ==
    /\ pc = "idle"
    /\ exists
    /\ Len(history) < MaxRuns
    /\ pc' = "picking"
    /\ UNCHANGED << exists, disk, doc, picked, notice, content, lines, idx,
                    cleanedLines, sections, currentSection, history >>
    /\ UNCHANGED << activationVars, editorVars, entryVars >>

\* The quick pick was dismissed: if (!mode) return.
DismissQuickPick ==
    /\ pc = "picking"
    /\ pc' = "idle"
    /\ UNCHANGED << exists, disk, doc, picked, notice, content, lines, idx,
                    cleanedLines, sections, currentSection, history >>
    /\ UNCHANGED << activationVars, editorVars, entryVars >>

\* Mutant of branchOf: the label is tested for a prefix no item has, so the
\* else branch is always taken.
branchOfWrongPrefix(label) == "smart"

\* mode.label.startsWith('Flat Sort') selects the flat branch, anything else
\* the section-aware one.
branchOf(label) == IF label = FlatLabel THEN "flat" ELSE "smart"

\* Mutant of readDocument: the file is read from disk (fs.readFileSync).
readFile == disk

\* openTextDocument(uri).getText(): the text of the document as the editor
\* holds it, unsaved edits included.
readDocument == doc

\* The quick pick returned an item: read the document and enter the branch
\* its label selects.
StartCleanup(label) ==
    /\ pc = "picking"
    /\ picked' = label
    /\ content' = readDocument
    /\ lines' = split(readDocument)
    /\ idx' = 1
    /\ cleanedLines' = <<>>
    /\ sections' = <<>>
    /\ currentSection' = EmptySection
    /\ pc' = branchOf(label)
    /\ UNCHANGED << exists, disk, doc, notice, history >>
    /\ UNCHANGED << activationVars, editorVars, entryVars >>

\* ------------------------------------------------------------ Flat mode
\* Mutant of flatKeeps: comment lines are not discarded.
flatKeepsComments(trimmed, kept) ==
    trimmed # <<>> /\ trimmed \notin Range(kept)

flatKeeps(trimmed, kept) ==
    trimmed # <<>> /\ ~startsWithHash(trimmed) /\ trimmed \notin Range(kept)

FlatLine ==
    /\ pc = "flat"
    /\ idx <= Len(lines)
    /\ LET trimmed == trim(lines[idx])
       IN  cleanedLines' = IF flatKeeps(trimmed, cleanedLines)
                           THEN Append(cleanedLines, trimmed)
                           ELSE cleanedLines
    /\ idx' = idx + 1
    /\ UNCHANGED << exists, disk, doc, pc, picked, notice, content, lines,
                    sections, currentSection, history >>
    /\ UNCHANGED << activationVars, editorVars, entryVars >>

\* Mutant of flatContent: nothing is written when no line was kept.
flatContentEmptyWhenNone(cleaned) ==
    IF cleaned = <<>> THEN <<>> ELSE join(sort(cleaned), << LF >>) \o << LF >>

flatContent(cleaned) == join(sort(cleaned), << LF >>) \o << LF >>

\* The flat loop over the first n lines.
RECURSIVE flatLoop(_, _)
flatLoop(ls, n) ==
    IF n = 0 THEN <<>>
    ELSE LET kept == flatLoop(ls, n - 1)
             trimmed == trim(ls[n])
         IN  IF flatKeeps(trimmed, kept) THEN Append(kept, trimmed) ELSE kept

\* finalContent of the flat branch for a text.
flatOrganize(text) == flatContent(flatLoop(split(text), Len(split(text))))

\* applyEdit: the whole document is replaced by finalContent; the file on
\* disk is not written.
Finish(finalContent, secs) ==
    /\ doc' = finalContent
    /\ history' = Append(history,
                         [mode |-> pc, picked |-> picked, buffer |-> doc,
                          disk |-> disk, input |-> content, sections |-> secs,
                          output |-> finalContent])
    /\ notice' = CleanedNotice
    /\ pc' = "idle"
    /\ UNCHANGED << exists, disk, picked >>

FlatFinish ==
    /\ pc = "flat"
    /\ idx > Len(lines)
    /\ Finish(flatContent(cleanedLines), <<>>)
    /\ UNCHANGED << content, lines, idx, cleanedLines, sections, currentSection >>
    /\ UNCHANGED << activationVars, editorVars, entryVars >>

\* ----------------------------------------------------------- Smart mode
\* The parser's accumulator: the finished sections and the current one.
pushCurrent(st) ==
    [sections |-> Append(st.sections, st.current), current |-> EmptySection]

\* Mutant of onBlank: an empty line is skipped without ending the section.
onBlankIgnored(st) == st

\* Mutant of onBlank: an empty line ends the section without the content test.
onBlankAlwaysPush(st) == pushCurrent(st)

\* Empty line: end the current section if it has content.
onBlank(st) ==
    IF hasContent(st.current) THEN pushCurrent(st) ELSE st

\* Mutant of onComment: a comment after rules stays in the same section.
onCommentSameSection(st, line) ==
    [st EXCEPT !.current.comments = Append(@, line)]

\* Comment line: a comment after rules starts a new section; the original
\* line is kept.
onComment(st, line) ==
    LET base == IF Len(st.current.rules) > 0 THEN pushCurrent(st) ELSE st
    IN  [base EXCEPT !.current.comments = Append(@, line)]

\* Mutant of onRule: the rule replaces the rules of the current section.
onRuleKeepsLast(st, trimmed) == [st EXCEPT !.current.rules = << trimmed >>]

\* Rule line: the trimmed line joins the current section.
onRule(st, trimmed) == [st EXCEPT !.current.rules = Append(@, trimmed)]

\* Body of the for-loop for one line.
smartStep(st, line) ==
    LET trimmed == trim(line)
    IN  IF trimmed = <<>> THEN onBlank(st)
        ELSE IF startsWithHash(trimmed) THEN onComment(st, line)
        ELSE onRule(st, trimmed)

\* Sections after the "push last section" step.
allSections(st) ==
    IF hasContent(st.current) THEN Append(st.sections, st.current)
    ELSE st.sections

\* The whole loop over the first n lines, then the push of the last section.
RECURSIVE parseLoop(_, _)
parseLoop(ls, n) ==
    IF n = 0 THEN [sections |-> <<>>, current |-> EmptySection]
    ELSE smartStep(parseLoop(ls, n - 1), ls[n])

parseSections(ls) == allSections(parseLoop(ls, Len(ls)))

parserState == [sections |-> sections, current |-> currentSection]

SmartStepTo(st) ==
    /\ sections' = st.sections
    /\ currentSection' = st.current
    /\ idx' = idx + 1
    /\ UNCHANGED << exists, disk, doc, pc, picked, notice, content, lines,
                    cleanedLines, history >>
    /\ UNCHANGED << activationVars, editorVars, entryVars >>

SmartBlank ==
    /\ pc = "smart"
    /\ idx <= Len(lines)
    /\ trim(lines[idx]) = <<>>
    /\ SmartStepTo(onBlank(parserState))

SmartComment ==
    /\ pc = "smart"
    /\ idx <= Len(lines)
    /\ startsWithHash(trim(lines[idx]))
    /\ SmartStepTo(onComment(parserState, lines[idx]))

SmartRule ==
    /\ pc = "smart"
    /\ idx <= Len(lines)
    /\ trim(lines[idx]) # <<>>
    /\ ~startsWithHash(trim(lines[idx]))
    /\ SmartStepTo(onRule(parserState, trim(lines[idx])))

\* Mutant of renderSection: the section text is not trimmed.
renderSectionUntrimmed(section) ==
    LET uniqueRules == sort(fromSet(section.rules))
        header == IF Len(section.comments) > 0
                  THEN join(section.comments, << LF >>) \o << LF >>
                  ELSE <<>>
        body == join(uniqueRules, << LF >>)
    IN  header \o body

\* Rendering of one section (the callback of sections.map).
renderSection(section) ==
    LET uniqueRules == sort(fromSet(section.rules))
        header == IF Len(section.comments) > 0
                  THEN join(section.comments, << LF >>) \o << LF >>
                  ELSE <<>>
        body == join(uniqueRules, << LF >>)
    IN  IF header = <<>> /\ body = <<>> THEN <<>> ELSE trim(header \o body)

\* Mutant of renderAll: the rendered sections are sorted as well.
renderAllSorted(secs) == sort([k \in 1..Len(secs) |-> renderSection(secs[k])])

renderAll(secs) == [k \in 1..Len(secs) |-> renderSection(secs[k])]

\* .filter(s => s.length > 0)
dropEmpty(texts) == SelectSeq(texts, LAMBDA s : Len(s) > 0)

\* Mutant of smartContent: sections joined by a single newline.
smartContentSingleNewline(secs) ==
    join(SelectSeq([k \in 1..Len(secs) |-> renderSection(secs[k])],
                   LAMBDA s : Len(s) > 0), << LF >>) \o << LF >>

smartContent(secs) ==
    join(dropEmpty(renderAll(secs)), << LF, LF >>) \o << LF >>

SmartFinish ==
    /\ pc = "smart"
    /\ idx > Len(lines)
    /\ sections' = allSections(parserState)
    /\ Finish(smartContent(allSections(parserState)), allSections(parserState))
    /\ UNCHANGED << content, lines, idx, cleanedLines, currentSection >>
    /\ UNCHANGED << activationVars, editorVars, entryVars >>

\* finalContent of the section-aware branch for a text.
smartOrganize(text) == smartContent(parseSections(split(text)))

Next ==
    \/ CleanupNoFile
    \/ ShowQuickPick
    \/ DismissQuickPick
    \/ \E label \in QuickPickItems : StartCleanup(label)
    \/ FlatLine
    \/ FlatFinish
    \/ SmartBlank
    \/ SmartComment
    \/ SmartRule
    \/ SmartFinish

Spec == Init /\ [][Next]_vars

\* ------------------------------------------- unsaved edits of the buffer
\* The .gitignore is open in an editor with unsaved edits: the text the
\* editor holds and the text on disk are any two texts.
InitBuffer ==
    /\ exists \in BOOLEAN
    /\ doc \in (IF exists THEN TextsUpTo(MaxEditLen) ELSE { <<>> })
    /\ disk \in (IF exists THEN TextsUpTo(MaxEditLen) ELSE { <<>> })
    /\ pc = "idle"
    /\ picked = ""
    /\ notice = ""
    /\ content = <<>>
    /\ lines = <<>>
    /\ idx = 1
    /\ cleanedLines = <<>>
    /\ sections = <<>>
    /\ currentSection = EmptySection
    /\ history = <<>>
    /\ ActivationDone
    /\ EntriesIdle
    /\ EditorClosed

SpecBuffer == InitBuffer /\ [][Next]_vars

\* ------------------------------------------------------- activation gate

\* No cleanup is running and there is no .gitignore to clean.
CleanupIdle ==
    /\ exists = FALSE
    /\ doc = <<>>
    /\ disk = <<>>
    /\ pc = "idle"
    /\ picked = ""
    /\ notice = ""
    /\ content = <<>>
    /\ lines = <<>>
    /\ idx = 1
    /\ cleanedLines = {}
    /\ sections = <<>>
    /\ currentSection = EmptySection
    /\ history = <<>>

ExtensionModes == { "Production", "Development", "Test" }

\* Answers of the activation endpoint: the request fails, or the body parses
\* to an object whose hash field is a hash or absent.
RemoteAnswers ==
    { [ok |-> FALSE, hash |-> "undefined"] }
        \cup { [ok |-> TRUE, hash |-> h] : h \in Hashes \cup { "undefined" } }

DisabledMessage == "Gitignore Helper is disabled until activated."
SuccessMessage == "Activation successful! Features enabled."
MismatchBypassed == "Dev Mode: Integrity mismatch bypassed."
ErrorBypassed == "Dev Mode: Integrity check error bypassed."
UpdateRequired == "Critical Update Required"
ActivationFailed == "Activation failed"

InitActivation ==
    /\ CleanupIdle
    /\ EditorClosed
    /\ EntriesIdle
    /\ extensionMode \in ExtensionModes
    /\ isActivated \in BOOLEAN
    /\ localIntegrity \in { "missing", "malformed" } \cup Hashes
    /\ extensionJs \in { "missing" } \cup Hashes
    /\ remote \in RemoteAnswers
    /\ updateThrows \in BOOLEAN
    /\ registerThrows \in BOOLEAN
    /\ apc = "start"
    /\ silent = FALSE
    /\ fetched = FALSE
    /\ compared = FALSE
    /\ registerCalls = 0
    /\ activationMessage = ""

\* The catch block: the number of registerCommands calls and the message
\* shown after an error is caught with calls calls made and msg on screen.
catchError(calls, msg, sil) ==
    IF extensionMode = "Development"
    THEN [calls |-> calls + 1, msg |-> ErrorBypassed]
    ELSE [calls |-> calls, msg |-> IF sil THEN msg ELSE ActivationFailed]

\* registerCommands called inside the try block: a throw lands in the catch.
registerCommands(calls, msg, sil) ==
    IF registerThrows
    THEN catchError(calls + 1, msg, sil)
    ELSE [calls |-> calls + 1, msg |-> msg]

\* The gate leaves the files, the endpoint and the mode as they are.
GateEnvironment ==
    UNCHANGED << extensionMode, localIntegrity, extensionJs, remote,
                 updateThrows, registerThrows, cleanupVars, editorVars,
                 entryVars >>

\* verifyAndActivate up to its first await.
verifyAndActivate(sil) ==
    /\ silent' = sil
    /\ IF localIntegrity \in { "missing", "malformed" }
       THEN LET c == catchError(registerCalls, activationMessage, sil) IN
            /\ apc' = "done"
            /\ registerCalls' = c.calls
            /\ activationMessage' = c.msg
       ELSE /\ apc' = "fetching"
            /\ UNCHANGED << registerCalls, activationMessage >>
    /\ UNCHANGED << isActivated, fetched, compared >>
    /\ GateEnvironment

Activate ==
    /\ apc = "start"
    /\ IF isActivated
       THEN verifyAndActivate(TRUE)
       ELSE /\ apc' = "prompt"
            /\ UNCHANGED << silent, registerCalls, activationMessage,
                            isActivated, fetched, compared >>
            /\ GateEnvironment

PromptActivate ==
    /\ apc = "prompt"
    /\ verifyAndActivate(FALSE)

PromptDismiss ==
    /\ apc = "prompt"
    /\ apc' = "done"
    /\ activationMessage' = DisabledMessage
    /\ UNCHANGED << silent, registerCalls, isActivated, fetched, compared >>
    /\ GateEnvironment

\* The comparison compares a hash of the integrity file instead.
hashesEqualIntegrityFile == localIntegrity = remote.hash

\* calculatedHash === remoteIntegrity.hash
hashesEqual == extensionJs = remote.hash

FetchRejected ==
    /\ apc = "fetching"
    /\ ~remote.ok
    /\ LET c == catchError(registerCalls, activationMessage, silent) IN
       /\ apc' = "done"
       /\ registerCalls' = c.calls
       /\ activationMessage' = c.msg
    /\ UNCHANGED << silent, isActivated, fetched, compared >>
    /\ GateEnvironment

FetchResolved ==
    /\ apc = "fetching"
    /\ remote.ok
    /\ fetched' = TRUE
    /\ IF extensionJs = "missing"
       THEN LET c == catchError(registerCalls, activationMessage, silent) IN
            /\ apc' = "done"
            /\ registerCalls' = c.calls
            /\ activationMessage' = c.msg
            /\ UNCHANGED compared
       ELSE /\ compared' = TRUE
            /\ IF hashesEqual
               THEN /\ apc' = "updating"
                    /\ activationMessage' =
                           (IF silent THEN activationMessage ELSE SuccessMessage)
                    /\ UNCHANGED registerCalls
               ELSE IF extensionMode = "Development"
               THEN LET r == registerCommands(registerCalls, MismatchBypassed,
                                              silent) IN
                    /\ apc' = "done"
                    /\ registerCalls' = r.calls
                    /\ activationMessage' = r.msg
               ELSE /\ apc' = "updatePrompt"
                    /\ activationMessage' = UpdateRequired
                    /\ UNCHANGED registerCalls
    /\ UNCHANGED << silent, isActivated >>
    /\ GateEnvironment

\* await globalState.update('isActivated', true); registerCommands(context)
UpdateActivated ==
    /\ apc = "updating"
    /\ apc' = "done"
    /\ IF updateThrows
       THEN LET c == catchError(registerCalls, activationMessage, silent) IN
            /\ registerCalls' = c.calls
            /\ activationMessage' = c.msg
            /\ UNCHANGED isActivated
       ELSE LET r == registerCommands(registerCalls, activationMessage,
                                      silent) IN
            /\ isActivated' = TRUE
            /\ registerCalls' = r.calls
            /\ activationMessage' = r.msg
    /\ UNCHANGED << silent, fetched, compared >>
    /\ GateEnvironment

\* The update prompt is answered or closed; the stored flag is cleared.
UpdatePromptAnswered ==
    /\ apc = "updatePrompt"
    /\ apc' = "done"
    /\ IF updateThrows
       THEN LET c == catchError(registerCalls, activationMessage, silent) IN
            /\ registerCalls' = c.calls
            /\ activationMessage' = c.msg
            /\ UNCHANGED isActivated
       ELSE /\ isActivated' = FALSE
            /\ UNCHANGED << registerCalls, activationMessage >>
    /\ UNCHANGED << silent, fetched, compared >>
    /\ GateEnvironment

NextActivation ==
    \/ Activate
    \/ PromptActivate
    \/ PromptDismiss
    \/ FetchRejected
    \/ FetchResolved
    \/ UpdateActivated
    \/ UpdatePromptAnswered

SpecActivation == InitActivation /\ [][NextActivation]_vars

\* ---------------------------------------------------- autocomplete items

\* String.prototype.split(sep) for a one-character separator: scan from
\* position k with the current piece cur.
RECURSIVE splitOnFrom(_, _, _, _)
splitOnFrom(s, sep, k, cur) ==
    IF k > Len(s) THEN << cur >>
    ELSE IF s[k] = sep THEN << cur >> \o splitOnFrom(s, sep, k + 1, <<>>)
    ELSE splitOnFrom(s, sep, k + 1, Append(cur, s[k]))

splitOn(s, sep) == splitOnFrom(s, sep, 1, <<>>)

\* String.prototype.lastIndexOf for one character, as a 1-based position;
\* 0 when the character does not occur.
lastIndexOf(s, c) ==
    IF \E k \in 1..Len(s) : s[k] = c
    THEN CHOOSE k \in 1..Len(s) :
             s[k] = c /\ \A j \in (k + 1)..Len(s) : s[j] # c
    ELSE 0

\* String.prototype.startsWith
startsWith(s, p) == Len(p) <= Len(s) /\ SubSeq(s, 1, Len(p)) = p

\* String.prototype.toLowerCase on the letters A-Z
toLowerCase(s) ==
    [k \in 1..Len(s) |-> IF s[k] \in 65..90 THEN s[k] + 32 ELSE s[k]]

\* Names of the directory entries next to the .gitignore file.
NameA == << LOWER_A >>
NameAA == << LOWER_A, LOWER_A >>
DotGit == << 46, 103, 105, 116 >>
DotGitignore == << 46, 103, 105, 116, 105, 103, 110, 111, 114, 101 >>

\* The workspace, as paths relative to the directory of the .gitignore
\* file: a file a, a folder aa holding a file a, .git and .gitignore.
Directories == { <<>>, << NameAA >>, << DotGit >> }
Files == { << NameA >>, << NameAA, NameA >>, << DotGitignore >> }

\* fs.readdir(dir, { withFileTypes: true })
readdir(dir) ==
    { [name |-> q[Len(q)], isDirectory |-> q \in Directories] :
        q \in { r \in Directories \cup Files :
                  /\ Len(r) = Len(dir) + 1
                  /\ SubSeq(r, 1, Len(dir)) = dir } }

\* The line as the providers look at it: leading whitespace, one '!' and
\* one '/' are dropped.
cleanLine(lineText) ==
    LET t == trimStart(lineText)
        u == IF startsWith(t, << BANG >>) THEN Tail(t) ELSE t
    IN  IF startsWith(u, << SLASH >>) THEN Tail(u) ELSE u

\* path.join(gitignoreDir, dirPart) for the part of the line before its
\* last '/': empty segments disappear.
searchDir(line) ==
    LET parts == splitOn(line, SLASH)
    IN  SelectSeq(SubSeq(parts, 1, Len(parts) - 1), LAMBDA part : part # <<>>)

\* The text after the last '/' of the line, or the whole line.
prefixOf(line) == SubSeq(line, lastIndexOf(line, SLASH) + 1, Len(line))

\* Folders first, then by label.
itemLess(a, b) ==
    IF a.type = b.type THEN strLess(a.label, b.label) ELSE a.type = "folder"

\* items.sort(...) of the items collected from a directory listing
RECURSIVE sortItems(_)
sortItems(items) ==
    IF items = {} THEN <<>>
    ELSE LET first == CHOOSE x \in items :
                          \A y \in items \ { x } : itemLess(x, y)
         IN  << first >> \o sortItems(items \ { first })

webviewItem(file) ==
    [label |-> file.name,
     type |-> IF file.isDirectory THEN "folder" ELSE "file",
     insertText |-> IF file.isDirectory THEN file.name \o << SLASH >>
                    ELSE file.name]

\* GitignoreEditorProvider.provideCompletionItems(document, lineText)
provideCompletionItems(lineText) ==
    LET line == cleanLine(lineText)
        dir == searchDir(line)
        prefix == prefixOf(line)
    IN  IF dir \notin Directories THEN <<>>
        ELSE sortItems({ webviewItem(file) : file \in
                 { f \in readdir(dir) :
                     /\ f.name \notin { DotGit, DotGitignore }
                     /\ \/ prefix = <<>>
                        \/ startsWith(toLowerCase(f.name),
                                      toLowerCase(prefix)) } })

completionItem(file) ==
    [label |-> IF file.isDirectory THEN file.name \o << SLASH >> ELSE file.name,
     kind |-> IF file.isDirectory THEN "Folder" ELSE "File"]

\* GitignoreCompletionProvider.provideCompletionItems(document, position)
\* for the text of the line before the position
languageCompletionItems(lineText) ==
    IF ~enableAutocomplete THEN {}
    ELSE LET dir == searchDir(cleanLine(lineText))
         IN  IF dir \notin Directories THEN {}
             ELSE { completionItem(file) : file \in
                      { f \in readdir(dir) :
                          f.name \notin { DotGit, DotGitignore } } }

\* ================================================================ claims
\* The runs of mode m to look at: the one that has just completed.  The
\* history only grows, so every run is the last one in the state that
\* follows its completion.
Runs(m) ==
    IF pc = "idle" /\ history # <<>> /\ history[Len(history)].mode = m
    THEN { Len(history) }
    ELSE {}

\* Lines of a text that ends with its trailing newline: the pieces before
\* the last line break.
RECURSIVE LinesUpTo(_, _)
LinesUpTo(t, n) ==
    IF n = 0 THEN << <<>> >>
    ELSE LET prev == LinesUpTo(t, n - 1)
         IN  IF t[n] = LF THEN Append(prev, <<>>)
             ELSE [prev EXCEPT ![Len(prev)] = Append(@, t[n])]

\* The lines of an output text: it ends with LF, and what follows the last
\* LF is no line.
OutLines(t) ==
    LET pieces == LinesUpTo(t, Len(t))
    IN  SubSeq(pieces, 1, Len(pieces) - 1)

IsBlankLine(l) == \A k \in 1..Len(l) : l[k] \in {SP, CR, LF}

FirstNonBlank(l) == CHOOSE k \in 1..Len(l) : l[k] \notin {SP, CR, LF}
                                             /\ \A j \in 1..(k - 1) : l[j] \in {SP, CR, LF}

IsCommentLine(l) == ~IsBlankLine(l) /\ l[FirstNonBlank(l)] = HASH

IsRuleLine(l) == ~IsBlankLine(l) /\ ~IsCommentLine(l)

\* Code-unit lexicographic order, stated without recursion.
LexLess(a, b) ==
    \E k \in 1..(Len(b)) :
        /\ \A j \in 1..(k - 1) : j <= Len(a) /\ a[j] = b[j]
        /\ (k > Len(a) \/ (k - 1 < Len(a) /\ a[k] < b[k]))

LexLeq(a, b) == a = b \/ LexLess(a, b)

\* Rendered units of an output: maximal runs of non-blank lines, as sets of
\* line numbers.
SameBlock(ls, i, j) == \A k \in i..j : ~IsBlankLine(ls[k])

\* ---- C1
\* C1: running the cleanup a second time in the same mode on the text the
\* first run wrote writes that same text again.
C1_Idempotent ==
    \A k \in (Runs("smart") \cup Runs("flat")) \ {1} :
        (history[k].mode = history[k - 1].mode /\ history[k].input = history[k - 1].output)
            => history[k].output = history[k - 1].output

C1_Witness ==
    /\ Len(history) = 2
    /\ history[1].mode = "smart" /\ history[2].mode = "smart"
    /\ Len(history[1].sections) = 2
    /\ history[1].output # history[1].input
    /\ history[2].input = history[1].output
    /\ history[2].output = history[1].output

\* ---- C2
\* Comment lines of the text that was read, untrimmed, in order.
CommentLinesOf(ls) == SelectSeq(ls, IsCommentLine)

\* C2: in Smart mode the comment lines of the output are the comment lines
\* of the input, verbatim and in the same order, and each heads, in the
\* output, the rules of the section it headed in the input.
C2_CommentsVerbatim ==
    \A k \in Runs("smart") :
        LET h == history[k]
            outSections == parseSections(split(h.output))
        IN  /\ CommentLinesOf(OutLines(h.output)) = CommentLinesOf(split(h.input))
            /\ Len(outSections) = Len(h.sections)
            /\ \A n \in 1..Len(h.sections) :
                   /\ outSections[n].comments = h.sections[n].comments
                   /\ Range(outSections[n].rules) = Range(h.sections[n].rules)

\* ---- C3
NoEqualRuleLinesIn(ls, sameUnit(_, _)) ==
    \A i, j \in 1..Len(ls) :
        (i < j /\ IsRuleLine(ls[i]) /\ IsRuleLine(ls[j]) /\ sameUnit(i, j))
            => ls[i] # ls[j]

\* C3: the output has no two equal rule lines within one rendered section
\* (Smart) or anywhere (Flat).
C3_Dedup ==
    /\ \A k \in Runs("smart") :
           LET ls == OutLines(history[k].output)
           IN  NoEqualRuleLinesIn(ls, LAMBDA i, j : SameBlock(ls, i, j))
    /\ \A k \in Runs("flat") :
           LET ls == OutLines(history[k].output)
           IN  NoEqualRuleLinesIn(ls, LAMBDA i, j : TRUE)

HasDuplicateRule(h) ==
    \E s \in Range(split(h.input)) :
        /\ IsRuleLine(s)
        /\ Cardinality({ i \in 1..Len(split(h.input)) : trim(split(h.input)[i]) = trim(s) }) > 1

C3_Witness ==
    \E k \in Runs("smart") :
        /\ HasDuplicateRule(history[k])
        /\ Len(history[k].sections) = 1
        /\ Len(history[k].sections[1].rules) = 3
        /\ Len(OutLines(history[k].output)) = 2

\* ---- C4
SortedRuleLinesIn(ls, sameUnit(_, _)) ==
    \A i, j \in 1..Len(ls) :
        (i < j /\ IsRuleLine(ls[i]) /\ IsRuleLine(ls[j]) /\ sameUnit(i, j))
            => LexLeq(ls[i], ls[j])

\* C4: within each rendered unit (a section in Smart mode, the whole output
\* in Flat mode) the rule lines are in non-decreasing code-unit order.
C4_Sorted ==
    /\ \A k \in Runs("smart") :
           LET ls == OutLines(history[k].output)
           IN  SortedRuleLinesIn(ls, LAMBDA i, j : SameBlock(ls, i, j))
    /\ \A k \in Runs("flat") :
           LET ls == OutLines(history[k].output)
           IN  SortedRuleLinesIn(ls, LAMBDA i, j : TRUE)

\* A run that read "a" before "!a" and wrote "!a" before "a".
C4_Witness ==
    \E k \in Runs("smart") \cup Runs("flat") :
        /\ split(history[k].input) = << << LOWER_A >>, << BANG, LOWER_A >> >>
        /\ OutLines(history[k].output) = << << BANG, LOWER_A >>, << LOWER_A >> >>
\* ---- C5
\* One iteration of the Smart loop reads lines[idx].
SmartReads == pc = "smart" /\ idx <= Len(lines) /\ idx' = idx + 1

C5_Step ==
    SmartReads =>
        LET line == lines[idx]
        IN  /\ (IsCommentLine(line) /\ currentSection.rules # <<>>) =>
                   /\ sections' = Append(sections, currentSection)
                   /\ currentSection' = [comments |-> << line >>, rules |-> <<>>]
            /\ (IsRuleLine(line) /\ currentSection.rules = <<>>
                                 /\ currentSection.comments # <<>>) =>
                   /\ sections' = sections
                   /\ currentSection'.comments = currentSection.comments
                   /\ currentSection'.rules = << trim(line) >>

C5_Example ==
    \A k \in Runs("smart") :
        LET ls == split(history[k].input)
        IN  (Len(ls) = 3 /\ IsRuleLine(ls[1]) /\ IsCommentLine(ls[2]) /\ IsRuleLine(ls[3]))
                => history[k].sections =
                       << [comments |-> <<>>, rules |-> << trim(ls[1]) >>],
                          [comments |-> << ls[2] >>, rules |-> << trim(ls[3]) >>] >>

\* C5: a comment read while the current section holds a rule closes that
\* section and heads a new one; a rule read while the current section holds
\* only comments joins it; so rule, comment, rule gives two sections.
C5_CommentStartsSection == [][C5_Step]_vars /\ []C5_Example

C5_Witness ==
    \E k \in Runs("smart") :
        /\ history[k].input = << LOWER_A, LF, HASH, LF, BANG >>
        /\ history[k].sections =
               << [comments |-> <<>>, rules |-> << << LOWER_A >> >>],
                  [comments |-> << << HASH >> >>, rules |-> << << BANG >> >>] >>

\* ---- C6
IsPrefix(a, b) == Len(a) <= Len(b) /\ SubSeq(b, 1, Len(a)) = a

C6_Step ==
    /\ (SmartReads /\ IsBlankLine(lines[idx])) =>
           IF hasContent(currentSection)
           THEN /\ sections' = Append(sections, currentSection)
                /\ currentSection' = EmptySection
           ELSE /\ sections' = sections
                /\ currentSection' = currentSection
    /\ pc = "smart" => IsPrefix(sections, sections')

\* C6: a blank line ends the current section when it has a comment or a
\* rule and does nothing otherwise; a section that was ended is never
\* changed by a later line.
C6_BlankEndsSection == [][C6_Step]_vars

\* A blank line has just ended a section with content, and a line follows.
C6_Witness ==
    /\ pc = "smart"
    /\ idx > 1 /\ idx <= Len(lines)
    /\ IsBlankLine(lines[idx - 1])
    /\ ~IsBlankLine(lines[idx])
    /\ Len(sections) = 1
    /\ currentSection = EmptySection

\* ---- C7
RECURSIVE BlocksUpTo(_, _)
BlocksUpTo(ls, n) ==
    IF n = 0 THEN << <<>> >>
    ELSE LET prev == BlocksUpTo(ls, n - 1)
         IN  IF IsBlankLine(ls[n]) THEN Append(prev, <<>>)
             ELSE [prev EXCEPT ![Len(prev)] = Append(@, ls[n])]

\* The maximal runs of non-blank lines, in order.
Blocks(ls) == SelectSeq(BlocksUpTo(ls, Len(ls)), LAMBDA b : b # <<>>)

StripBlanks(l) ==
    LET first == FirstNonBlank(l)
        last == CHOOSE k \in 1..Len(l) : l[k] \notin {SP, CR, LF}
                                         /\ \A j \in (k + 1)..Len(l) : l[j] \in {SP, CR, LF}
    IN  SubSeq(l, first, last)

StrippedComments(ls) ==
    LET cs == SelectSeq(ls, IsCommentLine)
    IN  [k \in 1..Len(cs) |-> StripBlanks(cs[k])]

\* C7: the rendered sections of the output are the sections of the input in
\* the same order, each with the same comments (up to surrounding blanks)
\* and the same set of rules.
C7_SectionOrder ==
    \A k \in Runs("smart") :
        LET h == history[k]
            bs == Blocks(OutLines(h.output))
        IN  /\ Len(bs) = Len(h.sections)
            /\ \A n \in 1..Len(h.sections) :
                   /\ { l \in Range(bs[n]) : IsRuleLine(l) } = Range(h.sections[n].rules)
                   /\ StrippedComments(bs[n]) = StrippedComments(h.sections[n].comments)

\* Two sections whose first sorts after the second.
C7_Witness ==
    \E k \in Runs("smart") :
        /\ Len(history[k].sections) = 2
        /\ history[k].sections[1].rules = << << LOWER_A >> >>
        /\ history[k].sections[2].rules = << << BANG >> >>
        /\ Len(Blocks(OutLines(history[k].output))) = 2

\* ---- C8
\* C8: every section on the section list has a comment or a rule and
\* renders to non-empty text, so the filter of empty texts removes nothing.
C8_SectionsNonEmpty ==
    /\ \A n \in 1..Len(sections) :
           hasContent(sections[n]) /\ renderSection(sections[n]) # <<>>
    /\ \A k \in Runs("smart") :
           /\ \A n \in 1..Len(history[k].sections) : hasContent(history[k].sections[n])
           /\ dropEmpty(renderAll(history[k].sections)) = renderAll(history[k].sections)

\* Several blank lines in a row were read and sections were pushed.
C8_Witness ==
    /\ pc = "smart"
    /\ idx > 3
    /\ IsBlankLine(lines[idx - 1]) /\ IsBlankLine(lines[idx - 2])
    /\ Len(sections) >= 1

\* ---- C9
HasCommentOrRule(t) == \E l \in Range(split(t)) : ~IsBlankLine(l)

\* C9: for an input with a comment or a rule, the Smart output does not
\* start with a blank line, has no two consecutive blank lines, separates
\* its sections by exactly one blank line and ends with exactly one newline.
C9_SmartLayout ==
    \A k \in Runs("smart") :
        LET h == history[k]
            out == h.output
            ls == OutLines(out)
        IN  HasCommentOrRule(h.input) =>
                /\ Len(out) >= 2
                /\ out[Len(out)] = LF
                /\ out[Len(out) - 1] # LF
                /\ ~IsBlankLine(ls[1])
                /\ \A i \in 1..(Len(ls) - 1) : ~(IsBlankLine(ls[i]) /\ IsBlankLine(ls[i + 1]))
                /\ ~IsBlankLine(ls[Len(ls)])
                /\ Cardinality({ i \in 1..Len(ls) : IsBlankLine(ls[i]) }) = Len(h.sections) - 1
                /\ Len(Blocks(ls)) = Len(h.sections)

\* A comment alone, two blank lines and a rule: two sections, one blank line
\* between them in the output.
C9_Witness ==
    \E k \in Runs("smart") :
        /\ history[k].input = << HASH, LF, LF, LF, LOWER_A >>
        /\ Len(history[k].sections) = 2
        /\ history[k].output = << HASH, LF, LF, LOWER_A, LF >>

\* ---- C10
Qualifying(t) == { trim(l) : l \in { x \in Range(split(t)) : IsRuleLine(x) } }

Ascending(s) == \A i, j \in 1..Len(s) : i < j => LexLess(s[i], s[j])

\* C10: the Flat output is the distinct qualifying lines of the input
\* (trimmed, non-blank, not starting with '#') in ascending order, one per
\* line, each followed by a newline; with none, it is a single newline.
C10_FlatExact ==
    \A k \in Runs("flat") :
        LET h == history[k]
            out == h.output
            ls == OutLines(out)
        IN  /\ Len(out) >= 1 /\ out[Len(out)] = LF
            /\ IF Qualifying(h.input) = {}
               THEN out = << LF >>
               ELSE /\ Range(ls) = Qualifying(h.input)
                    /\ Ascending(ls)
                    /\ \A i \in 1..Len(ls) : ls[i] # <<>> /\ ls[i][1] # HASH

\* A comment and a repeated rule were read, one line was written.
C10_Witness ==
    \E k \in Runs("flat") :
        LET ls == split(history[k].input)
        IN  /\ \E i \in 1..Len(ls) : IsCommentLine(ls[i])
            /\ \E i, j \in 1..Len(ls) : i < j /\ IsRuleLine(ls[i]) /\ trim(ls[i]) = trim(ls[j])
            /\ Len(OutLines(history[k].output)) = 1
\* ---- C11
OnlyBlankLines(t) == \A l \in Range(split(t)) : IsBlankLine(l)

OnlyBlankOrCommentLines(t) ==
    \A l \in Range(split(t)) : IsBlankLine(l) \/ IsCommentLine(l)

\* C11: an input that is empty or has only blank lines gives the text "\n"
\* in both modes; an input with only comments and blank lines gives "\n" in
\* Flat mode.
C11_EmptyInput ==
    /\ \A k \in Runs("smart") \cup Runs("flat") :
           OnlyBlankLines(history[k].input) => history[k].output = << LF >>
    /\ \A k \in Runs("flat") :
           OnlyBlankOrCommentLines(history[k].input) => history[k].output = << LF >>

\* A Flat run that read a comment and nothing to keep.
C11_Witness ==
    \E k \in Runs("flat") :
        /\ \E l \in Range(split(history[k].input)) : IsCommentLine(l)
        /\ OnlyBlankOrCommentLines(history[k].input)
        /\ history[k].output = << LF >>

\* ---- C12
\* C12: the output of either mode has no carriage return before a newline.
C12_LineEndings ==
    \A k \in Runs("smart") \cup Runs("flat") :
        LET out == history[k].output
        IN  \A n \in 1..(Len(out) - 1) : ~(out[n] = CR /\ out[n + 1] = LF)

\* A Smart run that read a comment line ended by "\r\n".
C12_Witness ==
    \E k \in Runs("smart") :
        /\ history[k].input = << HASH, CR, LF, HASH >>
        /\ history[k].output = << HASH, LF, HASH, LF >>

\* ---- C13
OrganizeAs(label, text) ==
    IF label = FlatLabel THEN flatOrganize(text) ELSE smartOrganize(text)

\* C13: the text a run writes back is the cleanup of the text the editor
\* held when the run read it, whether or not the file on disk differs.
C13_BufferIsSource ==
    \A k \in Runs("smart") \cup Runs("flat") :
        LET h == history[k]
        IN  /\ h.input = h.buffer
            /\ h.output = OrganizeAs(h.picked, h.buffer)

\* A run on a buffer with unsaved edits whose cleanup differs from the
\* cleanup of the file on disk.
C13_Witness ==
    \E k \in Runs("smart") \cup Runs("flat") :
        LET h == history[k]
        IN  /\ h.buffer # h.disk
            /\ OrganizeAs(h.picked, h.buffer) # OrganizeAs(h.picked, h.disk)
            /\ h.output = OrganizeAs(h.picked, h.buffer)

\* ---- C14
C14_Step ==
    /\ (pc = "picking" /\ pc' = "idle") =>
           (doc' = doc /\ disk' = disk /\ history' = history)
    /\ ~exists => (doc' = doc /\ disk' = disk /\ history' = history /\ pc' = "idle")

C14_Modes ==
    /\ Cardinality(QuickPickItems) = 2
    /\ pc \in {"flat", "smart"} => picked \in QuickPickItems
    /\ \A k \in Runs("smart") \cup Runs("flat") :
           LET h == history[k]
           IN  /\ h.picked = FlatLabel => h.output = flatOrganize(h.input)
               /\ h.picked = SmartLabel => h.output = smartOrganize(h.input)

\* C14: the picker offers two items; the Flat item gives the Flat cleanup,
\* the Smart item the Smart cleanup; dismissing the picker, or having no
\* .gitignore, leaves the document as it was.
C14_ModeSelection == [][C14_Step]_vars /\ []C14_Modes

\* The Flat item was picked for a text that the two modes clean differently.
C14_Witness ==
    \E k \in Runs("flat") :
        /\ history[k].picked = FlatLabel
        /\ flatOrganize(history[k].input) # smartOrganize(history[k].input)
        /\ history[k].output = flatOrganize(history[k].input)

\* --------------------------------------------------------- visual editor

\* Characters the user types into the textarea.
TypedChars == { LOWER_A, SLASH, SP, LF }

Message(type, text, requestId, items) ==
    [type |-> type, text |-> text, requestId |-> requestId, items |-> items]

\* The variables of the cleanup command other than the document.
cleanupRest == << exists, disk, pc, picked, notice, content, lines, idx,
                  cleanedLines, sections, currentSection, history >>

\* The custom editor has just been resolved for an empty .gitignore: the
\* first 'update' is on its way to the webview.
InitEditor ==
    /\ exists = TRUE
    /\ doc = <<>>
    /\ disk = <<>>
    /\ pc = "idle"
    /\ picked = ""
    /\ notice = ""
    /\ content = <<>>
    /\ lines = <<>>
    /\ idx = 1
    /\ cleanedLines = {}
    /\ sections = <<>>
    /\ currentSection = EmptySection
    /\ history = <<>>
    /\ ActivationDone
    /\ EntriesIdle
    /\ enableAutocomplete \in BOOLEAN
    /\ completions = {}
    /\ value = <<>>
    /\ selectionEnd = 0
    /\ currentRequestId = 0
    /\ selectedIndex = -1
    /\ currentItems = <<>>
    /\ display = "none"
    /\ toHost = <<>>
    /\ awaiting = {}
    /\ toWebview = << Message("update", doc, 0, <<>>) >>
    /\ typed = 0
    /\ lastRequest = 0
    /\ lastResponse = 0
    /\ lastChange = <<>>
    /\ escaped = FALSE

\* The last line of the text before the cursor.
currentLineOf(text, cursorPosition) ==
    LET parts == splitOn(SubSeq(text, 1, cursorPosition), LF)
    IN  parts[Len(parts)]

\* textBeforeCursor.lastIndexOf('\n') + 1
lineStartPosOf(text, cursorPosition) ==
    lastIndexOf(SubSeq(text, 1, cursorPosition), LF)

hideSuggestions ==
    /\ display' = "none"
    /\ currentItems' = <<>>
    /\ selectedIndex' = -1

\* Mutant of showSuggestions: the box is shown even when no item is left
\* after filtering.
showSuggestionsUnguarded(items) ==
    LET prefix == prefixOf(currentLineOf(value, selectionEnd))
        filteredItems ==
            SelectSeq(items, LAMBDA item :
                ~(item.type = "file" /\ item.label = prefix))
    IN  /\ currentItems' = filteredItems
        /\ selectedIndex' = 0
        /\ display' = "block"

showSuggestions(items) ==
    LET prefix == prefixOf(currentLineOf(value, selectionEnd))
        filteredItems ==
            SelectSeq(items, LAMBDA item :
                ~(item.type = "file" /\ item.label = prefix))
    IN  IF filteredItems = <<>>
        THEN hideSuggestions
        ELSE /\ currentItems' = filteredItems
             /\ selectedIndex' = 0
             /\ display' = "block"

\* The 'input' listener, run after the textarea changed to newValue with
\* the cursor at newPosition.
onInput(newValue, newPosition) ==
    LET currentLine == currentLineOf(newValue, newPosition)
        change == Message("change", newValue, 0, <<>>)
    IN  /\ value' = newValue
        /\ selectionEnd' = newPosition
        /\ lastChange' = newValue
        /\ typed' = typed + 1
        /\ escaped' = FALSE
        /\ IF trim(currentLine) = <<>>
           THEN /\ hideSuggestions
                /\ toHost' = Append(toHost, change)
                /\ UNCHANGED << currentRequestId, lastRequest >>
           ELSE /\ currentRequestId' = currentRequestId + 1
                /\ lastRequest' = currentRequestId + 1
                /\ toHost' = toHost \o << change,
                       Message("autocomplete", currentLine,
                               currentRequestId + 1, <<>>) >>
                /\ UNCHANGED << currentItems, selectedIndex, display >>
        /\ UNCHANGED << doc, cleanupRest, activationVars, entryVars,
                    enableAutocomplete,
                        completions, awaiting, toWebview, lastResponse >>

\* The keydown listener handles the key itself.
boxActive == Len(currentItems) > 0 /\ display # "none"

\* The user types one character at the cursor.
Type(c) ==
    /\ typed < MaxTyped
    /\ c = LF => ~boxActive
    /\ onInput(SubSeq(value, 1, selectionEnd) \o << c >>
                   \o SubSeq(value, selectionEnd + 1, Len(value)),
               selectionEnd + 1)

\* The user deletes the character before the cursor.
Backspace ==
    /\ typed < MaxTyped
    /\ selectionEnd > 0
    /\ onInput(SubSeq(value, 1, selectionEnd - 1)
                   \o SubSeq(value, selectionEnd + 1, Len(value)),
               selectionEnd - 1)

\* Mutant of retriggers: every selection asks for new suggestions.
retriggersAlways(item) == TRUE

\* Only re-trigger if it is a folder
retriggers(item) == item.type = "folder"

\* selectItem(index) for an index inside currentItems (0-based).
selectItem(index) ==
    LET item == currentItems[index + 1]
        currentLine == currentLineOf(value, selectionEnd)
        lastSlashIndex == lastIndexOf(currentLine, SLASH)
        lineStartPos == lineStartPosOf(value, selectionEnd)
        newLine == IF lastSlashIndex # 0
                   THEN SubSeq(currentLine, 1, lastSlashIndex) \o item.insertText
                   ELSE item.insertText
        newText == SubSeq(value, 1, lineStartPos) \o newLine
                       \o SubSeq(value, selectionEnd + 1, Len(value))
        newPosition == lineStartPos + Len(newLine)
        change == Message("change", newText, 0, <<>>)
    IN  /\ index >= 0 /\ index < Len(currentItems)
        /\ value' = newText
        /\ selectionEnd' = newPosition
        /\ lastChange' = newText
        /\ hideSuggestions
        /\ escaped' = FALSE
        /\ IF retriggers(item)
           THEN /\ currentRequestId' = currentRequestId + 1
                /\ lastRequest' = currentRequestId + 1
                /\ toHost' = toHost \o << change,
                       Message("autocomplete",
                               currentLineOf(newText, newPosition),
                               currentRequestId + 1, <<>>) >>
           ELSE /\ toHost' = Append(toHost, change)
                /\ UNCHANGED << currentRequestId, lastRequest >>
        /\ UNCHANGED << doc, cleanupRest, activationVars, entryVars,
                    enableAutocomplete,
                        completions, awaiting, toWebview, typed, lastResponse >>

\* A click on the suggestion with this index.
Click(index) ==
    /\ display # "none"
    /\ selectItem(index)

EnterOrTab ==
    /\ boxActive
    /\ selectItem(selectedIndex)

ArrowDown ==
    /\ boxActive
    /\ selectedIndex' = (selectedIndex + 1) % Len(currentItems)
    /\ UNCHANGED << doc, cleanupRest, activationVars, entryVars,
                    enableAutocomplete,
                    completions, value, selectionEnd, currentRequestId,
                    currentItems, display, toHost, awaiting, toWebview,
                    typed, lastRequest, lastResponse, lastChange,
                    escaped >>

ArrowUp ==
    /\ boxActive
    /\ selectedIndex' =
           (selectedIndex - 1 + Len(currentItems)) % Len(currentItems)
    /\ UNCHANGED << doc, cleanupRest, activationVars, entryVars,
                    enableAutocomplete,
                    completions, value, selectionEnd, currentRequestId,
                    currentItems, display, toHost, awaiting, toWebview,
                    typed, lastRequest, lastResponse, lastChange,
                    escaped >>

\* The Escape key: the listener acts only while the box is shown.
Escape ==
    /\ ~escaped
    /\ escaped' = TRUE
    /\ IF boxActive
       THEN hideSuggestions
       ELSE UNCHANGED << currentItems, selectedIndex, display >>
    /\ UNCHANGED << doc, cleanupRest, activationVars, entryVars,
                    enableAutocomplete,
                    completions, value, selectionEnd, currentRequestId,
                    toHost, awaiting, toWebview, typed, lastRequest,
                    lastResponse, lastChange >>

\* Mutant of accepts: every response is shown.
acceptsAnyRequest(message) == TRUE

\* message.requestId === currentRequestId
accepts(message) == message.requestId = currentRequestId

\* The webview's 'message' listener receives the next message of the host.
WebviewReceive ==
    /\ toWebview # <<>>
    /\ LET message == Head(toWebview) IN
       /\ toWebview' = Tail(toWebview)
       /\ IF message.type = "update"
          THEN /\ IF message.text # value
                  THEN /\ value' = message.text
                       /\ selectionEnd' = Len(message.text)
                  ELSE UNCHANGED << value, selectionEnd >>
               /\ UNCHANGED << currentItems, selectedIndex, display,
                               lastResponse >>
          ELSE /\ lastResponse' = message.requestId
               /\ IF accepts(message)
                  THEN showSuggestions(message.items)
                  ELSE UNCHANGED << currentItems, selectedIndex, display >>
               /\ UNCHANGED << value, selectionEnd >>
    /\ UNCHANGED << doc, cleanupRest, activationVars, entryVars,
                    enableAutocomplete,
                    completions, currentRequestId, toHost, awaiting, typed,
                    lastRequest, lastChange, escaped >>

\* Mutant of updateWebview: a document change posts nothing.
updateWebviewNever(text) == toWebview

\* updateWebview(): post the document text to the webview.
updateWebview(text) == Append(toWebview, Message("update", text, 0, <<>>))

\* onDidReceiveMessage: 'change' replaces the document text, which fires
\* onDidChangeTextDocument and so updateWebview; 'autocomplete' starts
\* provideCompletionItems and awaits it.
HostReceive ==
    /\ toHost # <<>>
    /\ LET e == Head(toHost) IN
       /\ toHost' = Tail(toHost)
       /\ IF e.type = "change"
          THEN /\ doc' = e.text
               /\ toWebview' = updateWebview(e.text)
               /\ UNCHANGED awaiting
          ELSE /\ awaiting' = awaiting \cup { e }
               /\ UNCHANGED << doc, toWebview >>
    /\ UNCHANGED << cleanupRest, activationVars, entryVars,
                    enableAutocomplete,
                    completions, value, selectionEnd, currentRequestId,
                    selectedIndex, currentItems, display, typed, lastRequest,
                    lastResponse, lastChange,
                    escaped >>

\* provideCompletionItems resolves for one of the awaited requests and the
\* handler posts its 'autocomplete-response'.
HostRespond(e) ==
    /\ e \in awaiting
    /\ awaiting' = awaiting \ { e }
    /\ toWebview' = Append(toWebview,
           Message("autocomplete-response", <<>>, e.requestId,
                   provideCompletionItems(e.text)))
    /\ UNCHANGED << doc, cleanupRest, activationVars, entryVars,
                    enableAutocomplete,
                    completions, value, selectionEnd, currentRequestId,
                    selectedIndex, currentItems, display, toHost, typed,
                    lastRequest, lastResponse, lastChange,
                    escaped >>

NextEditor ==
    \/ \E c \in TypedChars : Type(c)
    \/ Backspace
    \/ \E index \in 0..1 : Click(index)
    \/ EnterOrTab
    \/ ArrowDown
    \/ ArrowUp
    \/ Escape
    \/ WebviewReceive
    \/ HostReceive
    \/ \E e \in awaiting : HostRespond(e)

SpecEditor == InitEditor /\ [][NextEditor]_vars

\* ------------------------------------------- language completion provider

\* Documents open in the text editor when completion is asked for.
CompletionTexts ==
    UNION { [1..n -> { LOWER_A, SLASH, BANG, SP, LF }] : n \in 0..MaxEditLen + 1 }

InitCompletion ==
    /\ exists = TRUE
    /\ doc \in CompletionTexts
    /\ disk = doc
    /\ pc = "idle"
    /\ picked = ""
    /\ notice = ""
    /\ content = <<>>
    /\ lines = <<>>
    /\ idx = 1
    /\ cleanedLines = {}
    /\ sections = <<>>
    /\ currentSection = EmptySection
    /\ history = <<>>
    /\ ActivationDone
    /\ EntriesIdle
    /\ enableAutocomplete \in BOOLEAN
    /\ completions = {}
    /\ value = <<>>
    /\ selectionEnd = 0
    /\ currentRequestId = 0
    /\ selectedIndex = -1
    /\ currentItems = <<>>
    /\ display = "none"
    /\ toHost = <<>>
    /\ awaiting = {}
    /\ toWebview = <<>>
    /\ typed = 0
    /\ lastRequest = 0
    /\ lastResponse = 0
    /\ lastChange = <<>>
    /\ escaped = FALSE

\* The text editor asks the language completion provider for the items at
\* a position of the document.
ProvideCompletion(position) ==
    /\ completions' = languageCompletionItems(currentLineOf(doc, position))
    /\ UNCHANGED << cleanupVars, activationVars, entryVars,
                    enableAutocomplete,
                    value, selectionEnd, currentRequestId, selectedIndex,
                    currentItems, display, toHost, awaiting, toWebview,
                    typed, lastRequest, lastResponse, lastChange,
                    escaped >>

NextCompletion == \E position \in 0..Len(doc) : ProvideCompletion(position)

SpecCompletion == InitCompletion /\ [][NextCompletion]_vars

\* ------------------------------------- add to / remove from .gitignore

\* Characters of the .gitignore files the two commands work on.
EntryAlphabet == { LF, CR, SP, SLASH, LOWER_A }

\* Contents of the .gitignore file: text whose lines end in "\n" or "\r\n".
EntryTexts ==
    { t \in UNION { [1..n -> EntryAlphabet] : n \in 0..MaxFileLen } :
        IsDocumentText(t) }

\* Files and folders of the workspace the commands are invoked on.
EntryUris == { << NameA >>, << NameAA >> }

\* What the user may type into the input box instead of the path.
CustomPatterns == { << SLASH >> \o NameA, NameA \o << SP >> }

AlreadyNotice == "is already in .gitignore"
AddedNotice == "Added to .gitignore"
MissingNotice == ".gitignore file does not exist."
NotFoundNotice == "was not found in .gitignore."
RemovedNotice == "Removed from .gitignore"

\* The variables of the cleanup command the two commands do not touch.
cleanupLocals == << pc, picked, content, lines, idx, cleanedLines, sections,
                    currentSection, history >>

InitEntries ==
    /\ exists \in BOOLEAN
    /\ disk \in (IF exists THEN EntryTexts ELSE { <<>> })
    /\ doc = disk
    /\ pc = "idle"
    /\ picked = ""
    /\ notice = ""
    /\ content = <<>>
    /\ lines = <<>>
    /\ idx = 1
    /\ cleanedLines = {}
    /\ sections = <<>>
    /\ currentSection = EmptySection
    /\ history = <<>>
    /\ ActivationDone
    /\ EditorClosed
    /\ EntriesIdle

\* path.relative(workspace, uri.fsPath) with '/' as separator
relativePathOf(uri) == join(uri, << SLASH >>)

\* The command is invoked on a file or folder of the workspace.
AddToGitignore(uri) ==
    /\ epc = "idle"
    /\ Len(entryLog) < MaxOps
    /\ relativePath' = relativePathOf(uri)
    /\ epc' = IF exists THEN "pickPattern" ELSE "createPrompt"
    /\ UNCHANGED << exists, disk, doc, notice, entryLog, cleanupLocals,
                    activationVars, editorVars >>

\* 'Create .gitignore' is chosen: fs.writeFileSync(gitignorePath, '')
CreateGitignore ==
    /\ epc = "createPrompt"
    /\ exists' = TRUE
    /\ disk' = <<>>
    /\ epc' = "pickPattern"
    /\ UNCHANGED << doc, notice, relativePath, entryLog, cleanupLocals,
                    activationVars, editorVars >>

\* The prompt, the quick pick or the input box is dismissed.
DismissAdd ==
    /\ epc \in { "createPrompt", "pickPattern", "inputPattern" }
    /\ epc' = "idle"
    /\ UNCHANGED << exists, disk, doc, notice, relativePath, entryLog,
                    cleanupLocals, activationVars, editorVars >>

\* Array.prototype.includes
includes(arr, x) == \E k \in 1..Len(arr) : arr[k] = x

\* Mutant of alreadyListed: only the pattern itself is looked for.
alreadyListedExactOnly(arr, patternToAdd) == includes(arr, patternToAdd)

\* lines.includes(patternToAdd) || lines.includes(`/${patternToAdd}`)
alreadyListed(arr, patternToAdd) ==
    includes(arr, patternToAdd) \/ includes(arr, << SLASH >> \o patternToAdd)

\* Mutant of appendPrefix: nothing is put before the pattern.
appendPrefixNone(text) == <<>>

\* content.length > 0 && !content.endsWith('\n') ? '\n' : ''
appendPrefix(text) ==
    IF Len(text) > 0 /\ text[Len(text)] # LF THEN << LF >> ELSE <<>>

\* The try block of the add command for the pattern that was chosen.
appendPattern(patternToAdd) ==
    LET text == IF exists THEN disk ELSE <<>>
        added == text \o appendPrefix(text) \o patternToAdd \o << LF >>
    IN  /\ epc' = "idle"
        /\ IF alreadyListed(split(text), patternToAdd)
           THEN /\ notice' = AlreadyNotice
                /\ entryLog' = Append(entryLog,
                       [op |-> "add", pattern |-> patternToAdd,
                        before |-> text, after |-> text])
                /\ UNCHANGED << exists, disk, doc >>
           ELSE /\ exists' = TRUE
                /\ disk' = added
                /\ doc' = added
                /\ notice' = AddedNotice
                /\ entryLog' = Append(entryLog,
                       [op |-> "add", pattern |-> patternToAdd,
                        before |-> text, after |-> added])
        /\ UNCHANGED << relativePath, cleanupLocals, activationVars,
                        editorVars >>

\* The quick pick item with the path itself is chosen.
PickPath ==
    /\ epc = "pickPattern"
    /\ appendPattern(relativePath)

\* 'Custom pattern...' is chosen: the input box opens.
PickCustom ==
    /\ epc = "pickPattern"
    /\ epc' = "inputPattern"
    /\ UNCHANGED << exists, disk, doc, notice, relativePath, entryLog,
                    cleanupLocals, activationVars, editorVars >>

InputPattern(input) ==
    /\ epc = "inputPattern"
    /\ appendPattern(input)

\* Mutant of matchesPath: the line is compared as it is.
matchesPathUntrimmed(line, path) ==
    line \in { path, << SLASH >> \o path, path \o << SLASH >>,
               << SLASH >> \o path \o << SLASH >> }

\* The lines the filter of the remove command drops.
matchesPath(line, path) ==
    trim(line) \in { path, << SLASH >> \o path, path \o << SLASH >>,
                     << SLASH >> \o path \o << SLASH >> }

RemoveFromGitignore(uri) ==
    /\ epc = "idle"
    /\ Len(entryLog) < MaxOps
    /\ LET path == relativePathOf(uri)
           fileLines == split(disk)
           newLines == SelectSeq(fileLines,
                                 LAMBDA line : ~matchesPath(line, path))
       IN  IF ~exists
           THEN /\ notice' = MissingNotice
                /\ UNCHANGED << disk, entryLog >>
           ELSE IF Len(newLines) = Len(fileLines)
           THEN /\ notice' = NotFoundNotice
                /\ entryLog' = Append(entryLog,
                       [op |-> "remove", pattern |-> path,
                        before |-> disk, after |-> disk])
                /\ UNCHANGED disk
           ELSE /\ disk' = join(newLines, << LF >>)
                /\ notice' = RemovedNotice
                /\ entryLog' = Append(entryLog,
                       [op |-> "remove", pattern |-> path,
                        before |-> disk, after |-> join(newLines, << LF >>)])
    /\ UNCHANGED << exists, doc, epc, relativePath, cleanupLocals,
                    activationVars, editorVars >>

NextEntries ==
    \/ \E uri \in EntryUris : AddToGitignore(uri)
    \/ CreateGitignore
    \/ DismissAdd
    \/ PickPath
    \/ PickCustom
    \/ \E input \in CustomPatterns : InputPattern(input)
    \/ \E uri \in EntryUris : RemoveFromGitignore(uri)

SpecEntries == InitEntries /\ [][NextEntries]_vars

\* ------------------------------------------------------------------ C15

\* C15 as stated: whenever registerCommands has been called, the gate has
\* fetched the expected hash, compared it with the hash of the local
\* extension file and found the two equal.
C15_RegisteredOnlyWhenEqual ==
    registerCalls > 0 => fetched /\ compared /\ hashesEqual

\* C15 amended: outside development mode registerCommands is called only
\* after the fetch, the comparison and equality of the two hashes; in
\* development mode every finished run of the gate has called it.
C15_GateOutsideDevelopment ==
    /\ (extensionMode # "Development" /\ registerCalls > 0)
           => fetched /\ compared /\ extensionJs = remote.hash
    /\ (extensionMode = "Development" /\ apc = "done"
            /\ activationMessage # DisabledMessage)
           => registerCalls > 0

C15_Witness ==
    /\ extensionMode = "Production"
    /\ apc = "done"
    /\ registerCalls = 1
    /\ fetched /\ compared /\ extensionJs = remote.hash
    /\ localIntegrity # remote.hash

\* ------------------------------------------------------------------ C16

\* C16, language completion provider: with enableAutocomplete false the
\* provider returns no item.
C16_LanguageProviderSilent == ~enableAutocomplete => completions = {}

\* C16: with enableAutocomplete false no suggestion is produced: the
\* language provider returns no item, no 'autocomplete-response' carries an
\* item and the suggestion box shows none.
C16_NoSuggestionsWhenDisabled ==
    ~enableAutocomplete =>
        /\ completions = {}
        /\ currentItems = <<>>
        /\ \A k \in 1..Len(toWebview) :
               toWebview[k].type = "autocomplete-response"
                   => toWebview[k].items = <<>>

\* ------------------------------------------------------------------ C17

\* The webview handles a response to its latest request while the text
\* after the last '/' of the current line is the name of a returned file.
C17_ExactFileResponse ==
    /\ toWebview # <<>>
    /\ Head(toWebview).type = "autocomplete-response"
    /\ Head(toWebview).requestId = currentRequestId
    /\ \E k \in 1..Len(Head(toWebview).items) :
           /\ Head(toWebview).items[k].type = "file"
           /\ Head(toWebview).items[k].label =
                  prefixOf(currentLineOf(value, selectionEnd))
    /\ WebviewReceive

C17_Step == C17_ExactFileResponse => display' = "none"

\* C17: when the text after the last '/' of the current line is exactly the
\* name of a file of the response, the suggestion box is closed once the
\* response is handled.
C17_ExactFileMatchCloses == [][C17_Step]_vars

\* ------------------------------------------------------------------ C18

C18_Step ==
    \A index \in 0..1 :
        selectItem(index) =>
            LET item == currentItems[index + 1]
                line == currentLineOf(value, selectionEnd)
                start == selectionEnd - Len(line)
                kept == SubSeq(line, 1, lastIndexOf(line, SLASH))
                change == Message("change", value', 0, <<>>)
                request == Message("autocomplete",
                                   currentLineOf(value', selectionEnd'),
                                   lastRequest + 1, <<>>)
            IN  /\ display' = "none"
                /\ item.type = "folder" =>
                       /\ value' = SubSeq(value, 1, start) \o kept
                              \o item.label \o << SLASH >>
                              \o SubSeq(value, selectionEnd + 1, Len(value))
                       /\ request.text = kept \o item.label \o << SLASH >>
                       /\ toHost' = toHost \o << change, request >>
                       /\ lastRequest' = lastRequest + 1
                /\ item.type = "file" =>
                       /\ value' = SubSeq(value, 1, start) \o kept
                              \o item.label
                              \o SubSeq(value, selectionEnd + 1, Len(value))
                       /\ toHost' = Append(toHost, change)
                       /\ lastRequest' = lastRequest

\* C18: selecting a folder inserts its name and '/' and sends a new
\* autocomplete request for the resulting line; selecting a file sends no
\* request; both hide the box and send a 'change' with the new text.
C18_Selection == [][C18_Step]_vars

\* A folder was selected after one typed character and then a file of it.
C18_Witness ==
    /\ typed = 1
    /\ value = NameAA \o << SLASH >> \o NameA
    /\ lastRequest = 2
    /\ display = "none"
    /\ toHost # <<>>
    /\ toHost[Len(toHost)] = Message("change", value, 0, <<>>)

\* ------------------------------------------------------------------ C19

C19_Step ==
    (/\ toWebview # <<>>
     /\ Head(toWebview).type = "autocomplete-response"
     /\ Head(toWebview).requestId # lastRequest
     /\ WebviewReceive)
        => UNCHANGED << display, currentItems, selectedIndex >>

\* C19: a response whose requestId is not the id of the most recent
\* autocomplete request sent never changes the suggestion box.
C19_StaleResponseIgnored == [][C19_Step]_vars

\* The response to request 1 was received after the response to request 2,
\* whose items are still shown.
C19_Witness ==
    /\ lastRequest = 2
    /\ lastResponse = 1
    /\ display = "block"
    /\ currentItems = provideCompletionItems(NameAA)
    /\ value = NameAA

\* ------------------------------------------------------------------ C20

\* C20: the suggestion box is never visible while the current line before
\* the cursor is blank, nor after Escape with nothing typed since.
C20_BoxHiddenWhenBlankOrEscaped ==
    display = "block" =>
        /\ trim(currentLineOf(value, selectionEnd)) # <<>>
        /\ ~escaped

\* ------------------------------------------------------------------ C21

\* No 'change' is on its way to the host and no 'update' to the webview.
Synchronised ==
    /\ \A k \in 1..Len(toHost) : toHost[k].type # "change"
    /\ \A k \in 1..Len(toWebview) : toWebview[k].type # "update"

\* C21: once every 'change' and 'update' has been delivered, the textarea
\* text equals the document text and both equal the last text typed.
C21_ViewFollowsModel ==
    Synchronised => value = doc /\ doc = lastChange

\* Two input events happened, the textarea was set back by an 'update' in
\* between, and everything has been delivered.
C21_Witness ==
    /\ Synchronised
    /\ typed = 2
    /\ lastChange = NameA
    /\ value = NameA
    /\ doc = NameA

\* ------------------------------------------------------------------ C22

\* The webview handles an 'update' while a 'change' with the current
\* textarea text is still on its way to the host.
C22_UpdateWhileChangeInFlight ==
    /\ toWebview # <<>>
    /\ Head(toWebview).type = "update"
    /\ toHost # <<>>
    /\ \E k \in 1..Len(toHost) :
           /\ toHost[k] = Message("change", value, 0, <<>>)
           /\ \A j \in (k + 1)..Len(toHost) : toHost[j].type # "change"
    /\ WebviewReceive

C22_Step == C22_UpdateWhileChangeInFlight => value' = value

\* C22: an 'update' never replaces the textarea content with a text older
\* than what the user typed: while the 'change' for the current text is in
\* flight, an 'update' leaves the textarea as it is.
C22_NoOlderText == [][C22_Step]_vars

\* ------------------------------------------------------------------ C23

\* C23: in production mode, when activation has finished, the persisted
\* isActivated flag is true exactly when registerCommands was called in
\* this activation.
C23_FlagMatchesCommands ==
    (extensionMode = "Production" /\ apc = "done")
        => (isActivated <=> registerCalls > 0)

\* ------------------------------------------------------------------ C24

\* C24: registerCommands is called at most once per activation, on every
\* path, also when registerCommands or globalState.update throws.
C24_RegisteredAtMostOnce == registerCalls <= 1

\* ------------------------------------------------------------------ C25

\* The lines of a text, without the empty piece after a final line end.
ProperLines(text) ==
    LET pieces == split(text)
    IN  IF pieces[Len(pieces)] = <<>>
        THEN SubSeq(pieces, 1, Len(pieces) - 1)
        ELSE pieces

\* Number of lines of the text equal to the pattern.
CountLines(text, pattern) ==
    LET pieces == split(text)
    IN  Cardinality({ k \in 1..Len(pieces) : pieces[k] = pattern })

\* The file has a line equal to the pattern or to '/' and the pattern.
Listed(text, pattern) ==
    CountLines(text, pattern) + CountLines(text, << SLASH >> \o pattern) > 0

\* Entries i..j of the log are adds of one pattern.
AddsOfOnePattern(i, j) ==
    \A k \in i..j : /\ entryLog[k].op = "add"
                    /\ entryLog[k].pattern = entryLog[i].pattern

\* One add: a listed pattern leaves the file alone, any other pattern
\* becomes a new last line and the file ends with "\n".
AddedOnce(e) ==
    IF Listed(e.before, e.pattern)
    THEN e.after = e.before
    ELSE /\ split(e.after) = ProperLines(e.before) \o << e.pattern, <<>> >>
         /\ SubSeq(e.after, 1, Len(e.before)) = e.before
         /\ e.after[Len(e.after)] = LF

MatchesPath(line, path) ==
    \E lead \in { <<>>, << SLASH >> } : \E trail \in { <<>>, << SLASH >> } :
        trim(line) = lead \o path \o trail

KeptLines(text, path) ==
    SelectSeq(split(text), LAMBDA line : ~MatchesPath(line, path))

AddedThenRemoved(j) ==
    /\ j >= 2
    /\ entryLog[j - 1].op = "add"
    /\ entryLog[j].op = "remove"
    /\ entryLog[j].pattern = entryLog[j - 1].pattern
    /\ KeptLines(entryLog[j - 1].before, entryLog[j].pattern)
           = split(entryLog[j - 1].before)

WithFinalLineFeeds(text) ==
    IF text = <<>> THEN <<>>
    ELSE join(ProperLines(text) \o << <<>> >>, << LF >>)

RuleLinesOf(text) == { l \in Range(OutLines(text)) : IsRuleLine(l) }

\* C28: the rule lines of the Smart output are the trimmed rule lines of
\* the input, and a Flat run on the Smart output writes what Flat writes
\* for the original input.
C28_SmartKeepsRules ==
    /\ \A k \in Runs("smart") :
           RuleLinesOf(history[k].output) = Qualifying(history[k].input)
    /\ \A k \in Runs("flat") \ { 1 } :
           (/\ history[k - 1].mode = "smart"
            /\ history[k].input = history[k - 1].output)
               => history[k].output = flatOrganize(history[k - 1].input)

\* A Smart run that wrote two sections, one of them with the only rule,
\* was followed by a Flat run on its output.
C28_Witness ==
    /\ pc = "idle"
    /\ Len(history) = 2
    /\ history[1].mode = "smart"
    /\ history[2].mode = "flat"
    /\ history[2].input = history[1].output
    /\ Len(history[1].sections) = 2
    /\ Cardinality(Qualifying(history[1].input)) = 1
    /\ history[2].output # history[1].output

\* C29: whenever the suggestion box is visible the selected index names one
\* of the current items (0 <= selectedIndex < number of items); whenever
\* the box is hidden the item list is empty and the selected index is -1.
\* This holds after any sequence of responses, arrow keys, Enter/Tab,
\* Escape and clicks.
C29_SelectedIndexInRange ==
    /\ display = "block" =>
           /\ 0 <= selectedIndex
           /\ selectedIndex < Len(currentItems)
    /\ display = "none" =>
           /\ currentItems = <<>>
           /\ selectedIndex = -1

\* The box is visible with two items and the second one selected, which
\* only an arrow key can bring about (a response selects the first).
C29_Witness ==
    /\ display = "block"
    /\ Len(currentItems) = 2
    /\ selectedIndex = 1

====
